---- MODULE Spec2Model ----
(***************************************************************************)
(* hauth: the login-session state machine (HAuth._handle_request), the two *)
(* session stores (MemorySessionsStorage, PostgresSessionsStorage) and     *)
(* their background eviction sweep, as a state machine.                    *)
(*                                                                         *)
(* Interleaving follows asyncio: a coroutine runs until an await that      *)
(* really suspends.  The in-memory store's methods contain no await, so a  *)
(* handler is atomic between two Login Gateway calls; the sweep suspends   *)
(* only in on_expire and in sleep.  The PostgreSQL store suspends at every *)
(* statement.                                                              *)
(***************************************************************************)
EXTENDS Integers, Sequences, FiniteSets, TLC

\* ------------------------------------------------------------ bounds
MaxIds == 2          \* size of the id space (chars ^ session_id_length)
MaxCreates == 3      \* create_session calls in a run
MaxRequests == 3     \* transport requests in a run
MaxTime == 2         \* the clock runs 0..MaxTime

Ids == 1..MaxIds
Serials == 1..MaxCreates
Handlers == {"r1", "r2"}
Creators == {"c1", "c2"}

\* ------------------------------------------------------------ values
NoVal == "None"
NoTime == -1

UNDEFINED == "undefined"
LOGIN_REQUIRED == "login_required"
LOGIN_GEETEST_TRIGGERED == "login_geetest_triggered"
EMAIL_VERIFICATION_TRIGGERED == "email_verification_triggered"
EMAIL_GEETEST_TRIGGERED == "email_geetest_triggered"
SUCCESS == "success"
State == {UNDEFINED, LOGIN_REQUIRED, LOGIN_GEETEST_TRIGGERED,
          EMAIL_VERIFICATION_TRIGGERED, EMAIL_GEETEST_TRIGGERED, SUCCESS}

\* Python truthiness of an optional str, and of an optional float
Truthy(v) == v # NoVal /\ v # ""
TruthyNum(v) == v # NoTime /\ v # 0

\* pydantic model Session; ser is the identity of the object (not a field)
Session(ser, id, data, language, account, password, mmt, ticket, expiration_time, login_result) ==
    [ser |-> ser, id |-> id, state |-> UNDEFINED, data |-> data, language |-> language,
     account |-> account, password |-> password, mmt |-> mmt, ticket |-> ticket,
     expiration_time |-> expiration_time, login_result |-> login_result]

PartialSession(id, state, language, mmt, ticket) ==
    [id |-> id, state |-> state, language |-> language, mmt |-> mmt, ticket |-> ticket]

\* mutant: the projection passes the password on
get_partial_leaks(self) ==
    PartialSession(self.id, self.state, self.language, self.mmt, self.password)

get_partial(self) ==
    PartialSession(self.id, self.state, self.language, self.mmt, self.ticket)

NoSession == [Session(0, 0, NoVal, NoVal, NoVal, NoVal, NoVal, NoVal, NoTime, NoVal)
                 EXCEPT !.state = NoVal]
NoPartial == get_partial(NoSession)

\* the localization table: languages that have an entry (defaults: en, ru)
Localized == {"en", "ru"}

\* ------------------------------------------------------------ inputs
\* what an application passes to create_session: (data, language, login, password)
CreateArgs ==
    { [data |-> NoVal, language |-> "en", login |-> "u1", password |-> "p1"],
      [data |-> "d",   language |-> "fr", login |-> NoVal, password |-> NoVal] }

NoArgs == [data |-> NoVal, language |-> NoVal, login |-> NoVal, password |-> NoVal]

NoData == [kind |-> "none", account |-> NoVal, password |-> NoVal]
ReqLogin(a, p) == [kind |-> "login", account |-> a, password |-> p]
ReqMMTResult == [kind |-> "mmt_result", account |-> NoVal, password |-> NoVal]
ReqEmailVerification == [kind |-> "code", account |-> NoVal, password |-> NoVal]
\* each client submits its own credentials
Payloads(h) == {NoData, ReqMMTResult, ReqEmailVerification,
                IF h = "r1" THEN ReqLogin("u1", "p1") ELSE ReqLogin("u2", "p2")}

\* A run is bounded by a budget.  It exercises either the store and its sweep
\* (several sessions, the clock running), or the sweep against one request in
\* flight, or the orchestrator (several requests on one session).
StoreBudget == [creates |-> MaxCreates, requests |-> 0, time |-> MaxTime]
EvictBudget == [creates |-> 1, requests |-> 1, time |-> MaxTime]
AuthBudget == [creates |-> 1, requests |-> MaxRequests, time |-> 0]

\* configurations: Store(on_expire, ttl) and Config(on_success, on_error)
Configs ==
    [backend : {"memory", "postgres"}, ttl : {0, 1}, on_success : {TRUE},
     on_expire : BOOLEAN, on_error : {TRUE}, budget : {StoreBudget, EvictBudget}]
    \cup
    [backend : {"memory", "postgres"}, ttl : {NoTime}, on_success : BOOLEAN,
     on_expire : {FALSE}, on_error : BOOLEAN, budget : {AuthBudget}]

VARIABLES
    cfg,        \* the configuration, fixed at construction
    now,        \* time.time() / NOW()
    objs,       \* in-memory store: the Session objects created, by serial
    storage,    \* in-memory store: _storage, an insertion-ordered dict id -> object
    rows,       \* PostgreSQL store: table sessions, id -> row
    creators,   \* PostgreSQL create_session calls between _generate_id and INSERT
    sweep,      \* the eviction task _cleanup_expired_sessions
    hd,         \* transport requests / _handle_request calls in flight
    out,        \* the answer of the request that ended last
    cb,         \* callbacks dispatched so far, per session
    made,       \* the arguments of each create_session call, by serial
    nCreates, nRequests

vars == <<cfg, now, objs, storage, rows, creators, sweep, hd, out, cb, made, nCreates, nRequests>>

\* ------------------------------------------------------------ dict (ordered)
DictKeys(d) == {d[i].k : i \in 1..Len(d)}
DictHas(d, k) == k \in DictKeys(d)
DictGet(d, k) == LET i == CHOOSE i \in 1..Len(d) : d[i].k = k IN d[i].v
DictSet(d, k, v) ==
    IF DictHas(d, k)
    THEN [i \in 1..Len(d) |-> IF d[i].k = k THEN [k |-> k, v |-> v] ELSE d[i]]
    ELSE Append(d, [k |-> k, v |-> v])
DictDel(d, k) == SelectSeq(d, LAMBDA e : e.k # k)
DictKeySeq(d) == [i \in 1..Len(d) |-> d[i].k]

Perms(S) == {q \in [1..Cardinality(S) -> S] : \A i, j \in 1..Cardinality(S) : q[i] = q[j] => i = j}
Without(f, K) == [k \in DOMAIN f \ K |-> f[k]]
Bump(c, what, ser) == [c EXCEPT ![what][ser] = @ + 1]

CreateTask_awaited(c, what, ser) == Bump(c, what, ser)

\* asyncio.create_task(callback(session)): the callback is scheduled as a task
\* of its own and is pending until it ends
CreateTask(c, what, ser) == Bump(Bump(c, what, ser), "pending", ser)

SweepIdle == [pc |-> "sleep", keys |-> <<>>, cur |-> 0, tx |-> {}, why |-> NoVal]
SweepDead(why) == [pc |-> "dead", keys |-> <<>>, cur |-> 0, tx |-> {}, why |-> why]
SweepInCallback(keys, ser, tx) == [pc |-> "callback", keys |-> keys, cur |-> ser, tx |-> tx, why |-> NoVal]

\* ------------------------------------------------------------ in-memory store
MemGetSession(st, id) == IF DictHas(st, id) THEN DictGet(st, id) ELSE 0

MemUpdateSession(st, id, ref) == DictSet(st, id, ref)

MemDeleteSession_pops(st, id) ==
    IF DictHas(st, id) THEN DictDel(st, id) ELSE IF st = <<>> THEN st ELSE Tail(st)

MemDeleteSession(st, id) == IF DictHas(st, id) THEN DictDel(st, id) ELSE st

MemExpired_any(session, t) == t > session.expiration_time

MemExpired(session, t) ==
    session.expiration_time # NoTime /\ t > session.expiration_time

MemExpirationTime(ttl, t) == IF TruthyNum(ttl) THEN t + ttl ELSE NoTime

\* _generate_id + Session(...) + insertion, with no suspension in between
MemCreateSession(args) ==
    /\ cfg.backend = "memory"
    /\ nCreates < cfg.budget.creates
    /\ \E new_id \in Ids \ DictKeys(storage) :
          LET ser == nCreates + 1
              session == Session(ser, new_id, NoVal, args.language, NoVal, args.password,
                                 NoVal, NoVal, MemExpirationTime(cfg.ttl, now), NoVal)
          IN /\ objs' = objs @@ (ser :> session)
             /\ storage' = DictSet(storage, new_id, ser)
             /\ cb' = [w \in DOMAIN cb |-> cb[w] @@ (ser :> 0)]
    /\ made' = Append(made, args)
    /\ nCreates' = nCreates + 1
    /\ UNCHANGED <<cfg, now, rows, creators, sweep, hd, out, nRequests>>

\* the for loop of the sweep from its current key to its next suspension
RECURSIVE MemSweepRun(_, _, _)
MemSweepRun(st, keys, c) ==
    IF keys = <<>> THEN [storage |-> st, sweep |-> SweepIdle, cb |-> c]
    ELSE IF ~DictHas(st, Head(keys))
         THEN [storage |-> st, sweep |-> SweepDead("KeyError"), cb |-> c]
         ELSE LET ser == DictGet(st, Head(keys))
                  popped == DictDel(st, Head(keys))
                  c2 == Bump(c, "evict", ser)
              IN IF cfg.on_expire
                 THEN [storage |-> popped,
                       sweep |-> SweepInCallback(Tail(keys), ser, {}),
                       cb |-> Bump(c2, "expire", ser)]
                 ELSE MemSweepRun(popped, Tail(keys), c2)

MemExpiredKeys(st) == SelectSeq(DictKeySeq(st), LAMBDA k : MemExpired(objs[DictGet(st, k)], now))

MemSweepScan ==
    /\ cfg.backend = "memory"
    /\ sweep.pc = "sleep"
    /\ LET r == MemSweepRun(storage, MemExpiredKeys(storage), cb)
       IN storage' = r.storage /\ sweep' = r.sweep /\ cb' = r.cb
    /\ UNCHANGED <<cfg, now, objs, rows, creators, hd, out, made, nCreates, nRequests>>

\* on_expire returns or raises; a raise leaves _cleanup_expired_sessions
MemSweepCallbackReturn(raises) ==
    /\ cfg.backend = "memory"
    /\ sweep.pc = "callback"
    /\ LET r == IF raises
                THEN [storage |-> storage, sweep |-> SweepDead("on_expire"), cb |-> cb]
                ELSE MemSweepRun(storage, sweep.keys, cb)
       IN storage' = r.storage /\ sweep' = r.sweep /\ cb' = r.cb
    /\ UNCHANGED <<cfg, now, objs, rows, creators, hd, out, made, nCreates, nRequests>>

\* ------------------------------------------------------------ PostgreSQL store
Row(ser, id, data, language, login, password, expiration_time) ==
    [ser |-> ser, id |-> id, state |-> UNDEFINED, data |-> data, language |-> language,
     login |-> login, password |-> password, mmt |-> NoVal, ticket |-> NoVal,
     expiration_time |-> expiration_time, login_result |-> NoVal]

\* Session(**row): JSONB columns come back as str; data and login_result have
\* no str validator, login is not a field of Session
RowValid(row) == row.data = NoVal /\ row.login_result = NoVal

SessionFromRow(row) ==
    [Session(row.ser, row.id, row.data, row.language, NoVal, row.password,
             row.mmt, row.ticket, row.expiration_time, row.login_result)
        EXCEPT !.state = row.state]

PgExpired(row, t) == row.expiration_time # NoTime /\ row.expiration_time < t

PgExpirationTime(ttl, t) == IF ttl = NoTime THEN NoTime ELSE t + ttl

PgInitialized == sweep.pc # "off"

\* _generate_id: SELECT until an id with no row is drawn
PgGenerateId(c, args) ==
    /\ cfg.backend = "postgres" /\ PgInitialized
    /\ creators[c].pc # "insert"
    /\ nCreates < cfg.budget.creates
    /\ \E new_id \in Ids \ DOMAIN rows :
          creators' = [creators EXCEPT ![c] =
                          [pc |-> "insert", id |-> new_id, args |-> args, ser |-> nCreates + 1]]
    /\ cb' = [w \in DOMAIN cb |-> cb[w] @@ ((nCreates + 1) :> 0)]
    /\ made' = Append(made, args)
    /\ nCreates' = nCreates + 1
    /\ UNCHANGED <<cfg, now, objs, storage, rows, sweep, hd, out, nRequests>>

\* INSERT ... RETURNING *, then Session(**created_session)
PgInsert(c) ==
    /\ cfg.backend = "postgres"
    /\ creators[c].pc = "insert"
    /\ creators[c].id \notin sweep.tx
    /\ LET id == creators[c].id
           a == creators[c].args
           row == Row(creators[c].ser, id, a.data, a.language, a.login, a.password,
                      PgExpirationTime(cfg.ttl, now))
       IN IF id \in DOMAIN rows
          THEN /\ creators' = [creators EXCEPT ![c].pc = "UniqueViolationError",
                                                ![c].args = NoArgs]
               /\ rows' = rows
          ELSE /\ rows' = rows @@ (id :> row)
               /\ creators' = [creators EXCEPT ![c].pc =
                                  IF RowValid(row) THEN "returned" ELSE "ValidationError",
                                                ![c].args = NoArgs]
    /\ UNCHANGED <<cfg, now, objs, storage, sweep, hd, out, cb, made, nCreates, nRequests>>

\* the transaction of the sweep from its current row to its next suspension:
\* the callback of the next row, or COMMIT, or ROLLBACK on an exception
PgSweepRun(rws, tx, keys, c) ==
    IF keys = <<>>
    THEN [rows |-> Without(rws, tx), sweep |-> SweepIdle,
          cb |-> [c EXCEPT !.evict = [s \in DOMAIN @ |->
                     IF \E id \in tx : rws[id].ser = s THEN @[s] + 1 ELSE @[s]]]]
    ELSE IF ~cfg.on_expire
         THEN [rows |-> Without(rws, tx), sweep |-> SweepIdle,
               cb |-> [c EXCEPT !.evict = [s \in DOMAIN @ |->
                          IF \E id \in tx : rws[id].ser = s THEN @[s] + 1 ELSE @[s]]]]
         ELSE IF ~RowValid(rws[Head(keys)])
              THEN [rows |-> rws, sweep |-> SweepDead("ValidationError"), cb |-> c]
              ELSE [rows |-> rws,
                    sweep |-> SweepInCallback(Tail(keys), rws[Head(keys)].ser, tx),
                    cb |-> Bump(c, "expire", rws[Head(keys)].ser)]

PgSweepScan ==
    /\ cfg.backend = "postgres"
    /\ sweep.pc = "sleep"
    /\ LET expired == {id \in DOMAIN rows : PgExpired(rows[id], now)}
       IN \E keys \in Perms(expired) :
             LET r == PgSweepRun(rows, expired, keys, cb)
             IN rows' = r.rows /\ sweep' = r.sweep /\ cb' = r.cb
    /\ UNCHANGED <<cfg, now, objs, storage, creators, hd, out, made, nCreates, nRequests>>

PgSweepCallbackReturn(raises) ==
    /\ cfg.backend = "postgres"
    /\ sweep.pc = "callback"
    /\ LET r == IF raises
                THEN [rows |-> rows, sweep |-> SweepDead("on_expire"), cb |-> cb]
                ELSE PgSweepRun(rows, sweep.tx, sweep.keys, cb)
       IN rows' = r.rows /\ sweep' = r.sweep /\ cb' = r.cb
    /\ UNCHANGED <<cfg, now, objs, storage, creators, hd, out, made, nCreates, nRequests>>

\* ------------------------------------------------------------ both stores
\* initialize(): starts the eviction task
Initialize ==
    /\ sweep.pc = "off"
    /\ sweep' = SweepIdle
    /\ UNCHANGED <<cfg, now, objs, storage, rows, creators, hd, out, cb, made, nCreates, nRequests>>

Tick ==
    /\ now < cfg.budget.time
    /\ now' = now + 1
    /\ UNCHANGED <<cfg, objs, storage, rows, creators, sweep, hd, out, cb, made, nCreates, nRequests>>

\* the application calls delete_session(id)
AppDeleteSession(id) ==
    /\ IF cfg.backend = "memory"
       THEN /\ storage' = MemDeleteSession(storage, id)
            /\ rows' = rows
       ELSE /\ PgInitialized /\ id \notin sweep.tx
            /\ rows' = Without(rows, {id})
            /\ storage' = storage
    /\ UNCHANGED <<cfg, now, objs, creators, sweep, hd, out, cb, made, nCreates, nRequests>>

\* ------------------------------------------------------------ Request Orchestrator
\* The outcome of a run of _handle_request between two suspensions:
\*   s    the session object as the run leaves it
\*   ops  the callback dispatches and store calls made, in order
\*   exc  the exception raised after them (NoVal: none)
\*   pc   where the coroutine is afterwards; resp: the JSONResponse returned
NoResp == [status |-> 0, body |-> NoVal, view |-> NoPartial]
JSONResponse(status_code, body, view) == [status |-> status_code, body |-> body, view |-> view]

Respond(s, ops, status_code, body) ==
    [s |-> s, ops |-> ops, exc |-> NoVal, pc |-> "done",
     resp |-> JSONResponse(status_code, body, IF body = "session" THEN get_partial(s) ELSE NoPartial)]
Raise(s, ops, e) == [s |-> s, ops |-> ops, exc |-> e, pc |-> "done", resp |-> NoResp]
Await(s, ops, pc) == [s |-> s, ops |-> ops, exc |-> NoVal, pc |-> pc, resp |-> NoResp]

\* {"error": {"title": localization.X_title[session.language], "message": ...}}
ErrorResponse(s, ops, status_code, body) ==
    IF s.language \in Localized THEN Respond(s, ops, status_code, body)
    ELSE Raise(s, ops, "KeyError")

\* if session.state == State.SUCCESS and self.config.on_success: create_task; delete_session
SuccessOps(s) ==
    IF s.state = SUCCESS /\ cfg.on_success THEN <<"on_success", "delete">> ELSE <<>>

\* lines 251-256
Finish(s, ops) == Respond(s, ops \o SuccessOps(s) \o <<"update">>, 200, "session")

InvalidBody(s, ops) == ErrorResponse(s, ops \o <<"update">>, 422, "invalid_request_body")

\* mutant: a request without payload attempts a login
Poll_relogin(s, ops) == Await(s, ops, "login")

\* lines 133-135: if not data: update_session, return the projection
Poll(s, ops) == Respond(s, ops \o <<"update">>, 200, "session")

\* lines 133-249, up to the first Login Gateway call
Dispatch(s, data, ops) ==
    IF data.kind = "none" THEN Poll(s, ops)
    ELSE CASE s.state = LOGIN_REQUIRED ->
                 IF data.kind # "login" THEN InvalidBody(s, ops)
                 ELSE Await([s EXCEPT !.account = data.account, !.password = data.password],
                            ops, "login")
           [] s.state = LOGIN_GEETEST_TRIGGERED ->
                 IF data.kind # "mmt_result" THEN InvalidBody(s, ops)
                 ELSE Await(s, ops, "login_mmt")
           [] s.state = EMAIL_VERIFICATION_TRIGGERED ->
                 IF data.kind # "code" THEN InvalidBody(s, ops)
                 ELSE Await(s, ops, "verify")
           [] s.state = EMAIL_GEETEST_TRIGGERED ->
                 IF data.kind # "mmt_result" THEN InvalidBody(s, ops)
                 ELSE Raise(s, ops, "TypeError")
           [] OTHER -> Finish(s, ops)

\* mutant: the stage of an UNDEFINED session is not resolved
define_session_state_skips(s, data) == Dispatch(s, data, <<>>)

\* lines 126-131 with _define_session_state, then on from line 133
define_session_state(s, data) ==
    IF s.state = UNDEFINED
    THEN IF Truthy(s.account) /\ Truthy(s.password)
         THEN Await(s, <<>>, "define_login")
         ELSE Dispatch([s EXCEPT !.state = LOGIN_REQUIRED], data, <<>>)
    ELSE Dispatch(s, data, <<>>)

\* answers of the Login Gateway
LoginOutcomes == {"mmt", "ticket", "result", "GenshinException", "Exception"}
VerifyOutcomes == {"ok", "GenshinException", "Exception"}

\* _login_session once client._app_login has answered
login_session(s, outcome) ==
    CASE outcome = "mmt" -> [s EXCEPT !.state = LOGIN_GEETEST_TRIGGERED, !.mmt = "mmt"]
      [] outcome = "ticket" -> [s EXCEPT !.state = EMAIL_VERIFICATION_TRIGGERED, !.ticket = "ticket"]
      [] outcome = "result" -> [s EXCEPT !.login_result = "result", !.state = SUCCESS]
      [] OTHER -> [s EXCEPT !.state = LOGIN_REQUIRED]

LoginFailed(s) ==
    IF s.state = LOGIN_REQUIRED
    THEN ErrorResponse(s, <<"update">>, 200, "login_failed")
    ELSE Finish(s, <<>>)

\* the code after each await of _login_session
AfterLogin(s0, outcome, at, data) ==
    IF outcome = "Exception" THEN Raise(s0, <<>>, "Exception")
    ELSE LET s == login_session(s0, outcome)
         IN CASE at = "define_login" -> Dispatch(s, data, SuccessOps(s))
              [] at = "login" -> LoginFailed(s)
              [] at = "login_mmt" -> LoginFailed(s)
              [] OTHER -> Finish(s, <<>>)

\* _email_verify_session once client._verify_email has answered, and the code after it
email_verify_session(s, outcome) ==
    CASE outcome = "ok" -> Await(s, <<>>, "login_ticket")
      [] outcome = "GenshinException" ->
            ErrorResponse([s EXCEPT !.state = EMAIL_VERIFICATION_TRIGGERED],
                          <<"update">>, 200, "email_verification_failed")
      [] OTHER -> Raise(s, <<>>, "Exception")

\* PostgresSessionsStorage.update_session reads session.login, no attribute of Session
PgUpdateSession(w, id, session) == [w EXCEPT !.exc = "AttributeError"]

\* the dispatches and store calls of a run, in order, until one raises
RECURSIVE ApplyOps(_, _, _)
ApplyOps(w, ops, s) ==
    IF ops = <<>> \/ w.exc # NoVal THEN w
    ELSE ApplyOps(
            CASE Head(ops) = "on_success" -> [w EXCEPT !.cb = CreateTask(@, "success", s.ser)]
              [] Head(ops) = "delete" ->
                    IF cfg.backend = "memory"
                    THEN [w EXCEPT !.storage = MemDeleteSession(@, s.id)]
                    ELSE [w EXCEPT !.rows = Without(@, {s.id})]
              [] OTHER ->
                    IF cfg.backend = "memory"
                    THEN [w EXCEPT !.storage = MemUpdateSession(@, s.id, s.ser)]
                    ELSE PgUpdateSession(w, s.id, s),
            Tail(ops), s)

Awaiting == {"define_login", "login", "login_mmt", "verify", "login_ticket"}
HSession(h) == IF cfg.backend = "memory" THEN objs[hd[h].ref] ELSE hd[h].loc
Has(seq, x) == \E i \in 1..Len(seq) : seq[i] = x

Idle == [pc |-> "idle", ref |-> 0, loc |-> NoSession, data |-> NoData]
\* what a request answered, and for which session
Answer(ser, resp) == [ser |-> ser, resp |-> resp]

\* mutant: the failure is swallowed without the callback
OnError_dropped(c, exc, ser) == c

\* lines 258-261: if self.config.on_error: create_task(on_error(session, e))
OnError(c, exc, ser) == IF exc # NoVal /\ cfg.on_error THEN CreateTask(c, "error", ser) ELSE c

\* a run of _handle_request of request h with outcome e takes effect;
\* except Exception: on_error is dispatched and the exception re-raised
Run(h, e) ==
    LET w == ApplyOps([storage |-> storage, rows |-> rows, cb |-> cb, exc |-> NoVal], e.ops, e.s)
        exc == IF w.exc # NoVal THEN w.exc ELSE e.exc
    IN /\ (cfg.backend = "postgres" /\ Has(e.ops, "delete")) => e.s.id \notin sweep.tx
       /\ storage' = w.storage
       /\ rows' = w.rows
       /\ cb' = OnError(w.cb, exc, e.s.ser)
       /\ objs' = IF cfg.backend = "memory" THEN [objs EXCEPT ![e.s.ser] = e.s] ELSE objs
       /\ IF exc # NoVal
          THEN /\ hd' = [hd EXCEPT ![h] = Idle]
               /\ out' = Answer(e.s.ser, JSONResponse(500, exc, NoPartial))
          ELSE IF e.pc = "done"
          THEN /\ hd' = [hd EXCEPT ![h] = Idle]
               /\ out' = Answer(e.s.ser, e.resp)
          ELSE /\ hd' = [hd EXCEPT ![h] =
                           [pc |-> e.pc, ref |-> e.s.ser,
                            loc |-> IF cfg.backend = "memory" THEN NoSession ELSE e.s,
                            data |-> hd[h].data]]
               /\ out' = out

\* the transport adapter: session_dependency (get_session or 404), then
\* _handle_request; a request without body runs on without suspension
Request(h, id, data) ==
    /\ hd[h].pc = "idle"
    /\ h = "r2" => hd["r1"].pc # "idle"    \* r2 is the request concurrent with r1
    /\ nRequests < cfg.budget.requests
    /\ nRequests' = nRequests + 1
    /\ cfg.backend = "postgres" => PgInitialized
    /\ LET found == IF cfg.backend = "memory" THEN DictHas(storage, id) ELSE id \in DOMAIN rows
           valid == cfg.backend = "memory" \/ RowValid(rows[id])
           session == IF cfg.backend = "memory" THEN objs[MemGetSession(storage, id)]
                      ELSE SessionFromRow(rows[id])
       IN IF ~found \/ ~valid
          THEN /\ out' = Answer(0, IF ~found THEN JSONResponse(404, NoVal, NoPartial)
                                   ELSE JSONResponse(500, "ValidationError", NoPartial))
               /\ UNCHANGED <<hd, objs, storage, rows, cb>>
          ELSE IF data.kind # "none"
               THEN /\ hd' = [hd EXCEPT ![h] =
                                [pc |-> "handle", ref |-> session.ser,
                                 loc |-> IF cfg.backend = "memory" THEN NoSession ELSE session,
                                 data |-> data]]
                    /\ UNCHANGED <<out, objs, storage, rows, cb>>
               ELSE Run(h, define_session_state(session, data))
    /\ UNCHANGED <<cfg, now, creators, sweep, made, nCreates>>

HandleRequest(h) ==
    /\ hd[h].pc = "handle"
    /\ Run(h, define_session_state(HSession(h), hd[h].data))
    /\ UNCHANGED <<cfg, now, creators, sweep, made, nCreates, nRequests>>

LoginReturns(h, outcome) ==
    /\ hd[h].pc \in {"define_login", "login", "login_mmt", "login_ticket"}
    /\ Run(h, AfterLogin(HSession(h), outcome, hd[h].pc, hd[h].data))
    /\ UNCHANGED <<cfg, now, creators, sweep, made, nCreates, nRequests>>

VerifyReturns(h, outcome) ==
    /\ hd[h].pc = "verify"
    /\ Run(h, email_verify_session(HSession(h), outcome))
    /\ UNCHANGED <<cfg, now, creators, sweep, made, nCreates, nRequests>>

\* ------------------------------------------------------------ specification
Init ==
    /\ cfg \in Configs
    /\ now = 0
    /\ objs = <<>>
    /\ storage = <<>>
    /\ rows = <<>>
    /\ creators = [c \in Creators |-> [pc |-> "idle", id |-> 0, args |-> NoArgs, ser |-> 0]]
    /\ sweep = [SweepIdle EXCEPT !.pc = "off"]
    /\ hd = [h \in Handlers |-> Idle]
    /\ out = Answer(0, NoResp)
    /\ cb = [success |-> <<>>, error |-> <<>>, expire |-> <<>>, evict |-> <<>>,
             pending |-> <<>>, unretrieved |-> <<>>]
    /\ made = <<>>
    /\ nCreates = 0
    /\ nRequests = 0

Next ==
    \/ Initialize
    \/ Tick
    \/ \E args \in CreateArgs : MemCreateSession(args)
    \/ \E c \in Creators, args \in CreateArgs : PgGenerateId(c, args)
    \/ \E c \in Creators : PgInsert(c)
    \/ \E id \in Ids : AppDeleteSession(id)
    \/ MemSweepScan
    \/ \E raises \in BOOLEAN : MemSweepCallbackReturn(raises)
    \/ PgSweepScan
    \/ \E raises \in BOOLEAN : PgSweepCallbackReturn(raises)
    \/ \E h \in Handlers, id \in Ids : \E data \in Payloads(h) : Request(h, id, data)
    \/ \E h \in Handlers : HandleRequest(h)
    \/ \E h \in Handlers, outcome \in LoginOutcomes : LoginReturns(h, outcome)
    \/ \E h \in Handlers, outcome \in VerifyOutcomes : VerifyReturns(h, outcome)

Spec == Init /\ [][Next]_vars

\* The eviction task under its scheduling: asyncio runs a task that is ready, so
\* the sweep wakes after every interval and goes on when on_expire returns;
\* on_expire callbacks terminate by returning; the clock advances.  Runs are
\* those of the store and of the sweep against one request in flight.
InitLive == Init /\ cfg.budget \in {StoreBudget, EvictBudget}

NextLive ==
    \/ Initialize
    \/ Tick
    \/ \E args \in CreateArgs : MemCreateSession(args)
    \/ \E c \in Creators, args \in CreateArgs : PgGenerateId(c, args)
    \/ \E c \in Creators : PgInsert(c)
    \/ \E id \in Ids : AppDeleteSession(id)
    \/ MemSweepScan
    \/ MemSweepCallbackReturn(FALSE)
    \/ PgSweepScan
    \/ PgSweepCallbackReturn(FALSE)
    \/ \E h \in Handlers, id \in Ids : \E data \in Payloads(h) : Request(h, id, data)
    \/ \E h \in Handlers : HandleRequest(h)
    \/ \E h \in Handlers, outcome \in LoginOutcomes : LoginReturns(h, outcome)

SpecLive ==
    /\ InitLive /\ [][NextLive]_vars
    /\ WF_vars(Initialize) /\ WF_vars(Tick)
    /\ WF_vars(MemSweepScan) /\ WF_vars(MemSweepCallbackReturn(FALSE))
    /\ WF_vars(PgSweepScan) /\ WF_vars(PgSweepCallbackReturn(FALSE))

\* _handle_request as a function of its session argument: a session in each
\* stage, with the fields the stage goes with, handed to the orchestrator
StageSession(st) ==
    [Session(1, 1, NoVal, "en",
             IF st \in {UNDEFINED, LOGIN_REQUIRED} THEN NoVal ELSE "u1",
             IF st \in {UNDEFINED, LOGIN_REQUIRED} THEN NoVal ELSE "p1",
             IF st \in {LOGIN_GEETEST_TRIGGERED, EMAIL_GEETEST_TRIGGERED} THEN "mmt" ELSE NoVal,
             IF st \in {EMAIL_VERIFICATION_TRIGGERED, EMAIL_GEETEST_TRIGGERED} THEN "ticket" ELSE NoVal,
             NoTime,
             IF st = SUCCESS THEN "result" ELSE NoVal)
        EXCEPT !.state = st]

InitStages ==
    /\ cfg \in {c \in Configs : c.backend = "memory" /\ c.budget = AuthBudget}
    /\ now = 0
    /\ \E st \in State : objs = <<StageSession(st)>>
    /\ storage = <<[k |-> 1, v |-> 1]>>
    /\ rows = <<>>
    /\ creators = [c \in Creators |-> [pc |-> "idle", id |-> 0, args |-> NoArgs, ser |-> 0]]
    /\ sweep = [SweepIdle EXCEPT !.pc = "off"]
    /\ hd = [h \in Handlers |-> Idle]
    /\ out = Answer(0, NoResp)
    /\ cb = [success |-> <<0>>, error |-> <<0>>, expire |-> <<0>>, evict |-> <<0>>,
             pending |-> <<0>>, unretrieved |-> <<0>>]
    /\ made = <<NoArgs>>
    /\ nCreates = 1
    /\ nRequests = 0

NextStages ==
    \/ \E h \in Handlers, id \in Ids : \E data \in Payloads(h) : Request(h, id, data)
    \/ \E h \in Handlers : HandleRequest(h)
    \/ \E h \in Handlers, outcome \in LoginOutcomes : LoginReturns(h, outcome)
    \/ \E h \in Handlers, outcome \in VerifyOutcomes : VerifyReturns(h, outcome)

SpecStages == InitStages /\ [][NextStages]_vars

\* ------------------------------------------------------------ _generate_id
Taken_never(id) == FALSE

\* `new_id in existing_ids` / the SELECT of the candidate returns a row
Taken(id) == IF cfg.backend = "memory" THEN DictHas(storage, id) ELSE id \in DOMAIN rows

\* the id space is exhausted
Exhausted == \A id \in Ids : Taken(id)

\* create_session is called and enters the loop of _generate_id
GenerateCall(c, args) ==
    /\ creators[c].pc \notin {"generate", "insert"}
    /\ nCreates < cfg.budget.creates
    /\ cfg.backend = "postgres" => PgInitialized
    /\ creators' = [creators EXCEPT ![c] =
                       [pc |-> "generate", id |-> 0, args |-> args, ser |-> nCreates + 1]]
    /\ cb' = [w \in DOMAIN cb |-> cb[w] @@ ((nCreates + 1) :> 0)]
    /\ made' = Append(made, args)
    /\ nCreates' = nCreates + 1
    /\ UNCHANGED <<cfg, now, objs, storage, rows, sweep, hd, out, nRequests>>

\* one pass of `while True`: random.choices draws new_id; a taken id is drawn
\* again, a free one is returned.  The memory store goes on to store the session
\* without suspension, the PostgreSQL store goes on to its INSERT.
GenerateDraw(c, new_id) ==
    /\ creators[c].pc = "generate"
    /\ IF Taken(new_id) THEN UNCHANGED <<objs, storage, creators>>
       ELSE IF cfg.backend = "memory"
       THEN LET a == creators[c].args
                session == Session(creators[c].ser, new_id, NoVal, a.language, NoVal, a.password,
                                   NoVal, NoVal, MemExpirationTime(cfg.ttl, now), NoVal)
            IN /\ objs' = objs @@ (creators[c].ser :> session)
               /\ storage' = DictSet(storage, new_id, creators[c].ser)
               /\ creators' = [creators EXCEPT ![c].pc = "returned", ![c].id = new_id,
                                               ![c].args = NoArgs]
       ELSE /\ creators' = [creators EXCEPT ![c].pc = "insert", ![c].id = new_id]
            /\ UNCHANGED <<objs, storage>>
    /\ UNCHANGED <<cfg, now, rows, sweep, hd, out, cb, made, nCreates, nRequests>>

\* the loop of the memory store has no await: while it runs nothing else does
MemBusy == cfg.backend = "memory" /\ \E c \in Creators : creators[c].pc = "generate"

InitIds == Init /\ cfg.budget = StoreBudget

NextIds ==
    \/ \E c \in Creators, new_id \in Ids : GenerateDraw(c, new_id)
    \/ ~MemBusy /\ \E c \in Creators, args \in CreateArgs : GenerateCall(c, args)
    \/ ~MemBusy /\ Initialize
    \/ ~MemBusy /\ \E c \in Creators : PgInsert(c)
    \/ ~MemBusy /\ \E id \in Ids : AppDeleteSession(id)

\* random.choices is fair: a candidate that is free keeps being drawn
SpecIds ==
    /\ InitIds /\ [][NextIds]_vars
    /\ \A c \in Creators : WF_vars(\E new_id \in Ids : GenerateDraw(c, new_id))

\* ------------------------------------------------------------ transport (aiohttp)
\* the body of a POST: none, text that is no JSON, the JSON value null, or a JSON
\* object with some of the keys the payload models know (values well-typed)
BodyKeys == {"account", "password", "mmt_result", "code"}
Body(kind, keys, h) ==
    [kind |-> kind, keys |-> keys,
     account |-> IF h = "r1" THEN "u1" ELSE "u2", password |-> IF h = "r1" THEN "p1" ELSE "p2"]
Bodies(h) ==
    {Body(k, {}, h) : k \in {"absent", "not_json", "null"}}
        \cup {Body("object", keys, h) : keys \in SUBSET BodyKeys}

\* request_data_to_model: the first known key decides; the model of that key
\* validates its required fields and ignores the other keys
request_data_to_model(body) ==
    IF body.kind # "object" THEN [exc |-> NoVal, data |-> NoData]
    ELSE IF "account" \in body.keys
         THEN IF "password" \in body.keys
              THEN [exc |-> NoVal, data |-> ReqLogin(body.account, body.password)]
              ELSE [exc |-> "ValidationError", data |-> NoData]
    ELSE IF "mmt_result" \in body.keys THEN [exc |-> NoVal, data |-> ReqMMTResult]
    ELSE IF "code" \in body.keys THEN [exc |-> NoVal, data |-> ReqEmailVerification]
    ELSE [exc |-> "ValueError", data |-> NoData]

\* api_login: session_dependency, then request.json() outside the try, then
\* request_data_to_model inside it, then _handle_request
ApiLogin(h, id, body) ==
    LET found == IF cfg.backend = "memory" THEN DictHas(storage, id) ELSE id \in DOMAIN rows
        valid == cfg.backend = "memory" \/ RowValid(rows[id])
        ser == IF cfg.backend = "memory" THEN MemGetSession(storage, id) ELSE rows[id].ser
        parsed == request_data_to_model(body)
        rejected == body.kind = "not_json" \/ parsed.exc # NoVal
    IN IF found /\ valid /\ rejected
       THEN /\ hd[h].pc = "idle"
            /\ h = "r2" => hd["r1"].pc # "idle"
            /\ nRequests < cfg.budget.requests
            /\ nRequests' = nRequests + 1
            /\ cfg.backend = "postgres" => PgInitialized
            /\ out' = Answer(ser, IF body.kind = "not_json"
                                  THEN JSONResponse(500, "JSONDecodeError", NoPartial)
                                  ELSE JSONResponse(422, "HTTPUnprocessableEntity", NoPartial))
            /\ UNCHANGED <<cfg, now, objs, storage, rows, creators, sweep, hd, cb, made, nCreates>>
       ELSE Request(h, id, parsed.data)

NextTransport ==
    \/ \E h \in Handlers, id \in Ids : \E body \in Bodies(h) : ApiLogin(h, id, body)
    \/ \E h \in Handlers : HandleRequest(h)
    \/ \E h \in Handlers, outcome \in LoginOutcomes : LoginReturns(h, outcome)
    \/ \E h \in Handlers, outcome \in VerifyOutcomes : VerifyReturns(h, outcome)

SpecTransport == InitStages /\ [][NextTransport]_vars

\* a task created for on_success or on_error ends: the callback returns, or it
\* raises and the exception stays in the task, never retrieved
CallbackEnds(ser, raises) ==
    /\ ser \in DOMAIN cb.pending /\ cb.pending[ser] > 0
    /\ cb' = [cb EXCEPT !.pending[ser] = @ - 1,
                        !.unretrieved[ser] = IF raises THEN @ + 1 ELSE @]
    /\ UNCHANGED <<cfg, now, objs, storage, rows, creators, sweep, hd, out, made, nCreates, nRequests>>

\* the orchestrator and the tasks of its callbacks
NextTasks ==
    \/ \E h \in Handlers, id \in Ids : \E data \in Payloads(h) : Request(h, id, data)
    \/ \E h \in Handlers : HandleRequest(h)
    \/ \E h \in Handlers, outcome \in LoginOutcomes : LoginReturns(h, outcome)
    \/ \E h \in Handlers, outcome \in VerifyOutcomes : VerifyReturns(h, outcome)
    \/ \E ser \in Serials, raises \in BOOLEAN : CallbackEnds(ser, raises)

SpecTasks == InitStages /\ [][NextTasks]_vars

\* ------------------------------------------------------------ observations
\* get_session(id) returns a session
Found(id) == IF cfg.backend = "memory" THEN DictHas(storage, id) ELSE id \in DOMAIN rows
\* the object or row get_session(id) reads
Stored(id) == IF cfg.backend = "memory" THEN objs[DictGet(storage, id)] ELSE rows[id]
\* the session created as number ser is visible to get_session
Visible(ser) == \E id \in Ids : Found(id) /\ Stored(id).ser = ser
\* a request was answered in this step
Answered ==
    \/ \E h \in Handlers : hd[h].pc # "idle" /\ hd'[h].pc = "idle"
    \/ nRequests' # nRequests /\ hd' = hd
CredValues == {NoVal, "u1", "u2", "p1", "p2"}
\* every Session object of the run: stored, or held by a request in flight
Sessions ==
    {objs[i] : i \in DOMAIN objs}
    \cup {SessionFromRow(rows[id]) : id \in DOMAIN rows}
    \cup {hd[h].loc : h \in {x \in Handlers : hd[x].loc # NoSession}}

\* ------------------------------------------------------------ claims

\* C1: a session created with ttl T is not returned by get_session at any time
\* >= creation + T (= its expiration_time), also before the sweep has removed it.
C1_ExpiredNotReturned ==
    \A id \in Ids :
        Found(id) => ~(Stored(id).expiration_time # NoTime /\ now >= Stored(id).expiration_time)

\* C2: when _handle_request returns a response whose session stage is SUCCESS,
\* get_session(id) of that session returns not-found at the moment of return.
C2_SuccessAbsentAtReturn ==
    [][\A id \in Ids :
          (Answered /\ out'.resp.status = 200 /\ out'.resp.view.state = SUCCESS
              /\ out'.resp.view.id = id) => ~Found(id)']_vars

\* C3: on_success is dispatched at most once per session, and exactly once for a
\* session that has reached SUCCESS.
C3_OnSuccessOnce ==
    \A ser \in DOMAIN cb.success :
        /\ cb.success[ser] <= 1
        /\ (cfg.on_success /\ cfg.backend = "memory" /\ objs[ser].state = SUCCESS)
              => cb.success[ser] = 1

\* C4: the safe projection holds no account and no password: for every session of
\* the run, in every stage, replacing the stored credentials by any others leaves
\* get_partial unchanged, and every 200 session body is such a projection.
C4_ProjectionHidesCredentials ==
    /\ \A s \in Sessions :
          /\ DOMAIN get_partial(s) \cap {"account", "password"} = {}
          /\ \A a \in CredValues, p \in CredValues :
                get_partial([s EXCEPT !.account = a, !.password = p]) = get_partial(s)
    /\ (out.resp.status = 200 /\ out.resp.body = "session") =>
          /\ DOMAIN out.resp.view = {"id", "state", "language", "mmt", "ticket"}
          /\ \A f \in {"state", "language", "mmt", "ticket"} :
                out.resp.view[f] \notin CredValues \ {NoVal}

\* C4 witness: a 200 session body was returned for a session that stores credentials
C4_Witness ==
    /\ out.resp.status = 200 /\ out.resp.body = "session"
    /\ cfg.backend = "memory"
    /\ objs[out.ser].account = "u1" /\ objs[out.ser].password = "p1"
    /\ out.resp.view.state = LOGIN_GEETEST_TRIGGERED

\* C5: in a non-terminal stage, a payload of a kind the stage does not expect is
\* answered 422 with the invalid-request-body error, with no Login Gateway call
\* and with the stage and the stored credentials unchanged.
Expected(state) ==
    CASE state = LOGIN_REQUIRED -> "login"
      [] state = LOGIN_GEETEST_TRIGGERED -> "mmt_result"
      [] state = EMAIL_VERIFICATION_TRIGGERED -> "code"
      [] state = EMAIL_GEETEST_TRIGGERED -> "mmt_result"
      [] OTHER -> NoVal
C5_WrongPayload422 ==
    [][\A h \in Handlers :
          (/\ hd[h].pc = "handle" /\ hd'[h].pc # "handle"
           /\ Expected(HSession(h).state) \notin {NoVal, hd[h].data.kind})
          => /\ hd'[h].pc = "idle"
             /\ out'.resp.status = 422
             /\ out'.resp.body = "invalid_request_body"
             /\ cfg.backend = "memory" =>
                   /\ objs'[hd[h].ref].state = objs[hd[h].ref].state
                   /\ objs'[hd[h].ref].account = objs[hd[h].ref].account
                   /\ objs'[hd[h].ref].password = objs[hd[h].ref].password]_vars

\* C6: at most one of mmt, ticket, login_result is set, and it matches the stage:
\* mmt only in a challenge-pending stage, ticket only in a verification-pending
\* stage, login_result only in SUCCESS.
Aligned(s) ==
    /\ s.mmt # NoVal => s.state \in {LOGIN_GEETEST_TRIGGERED, EMAIL_GEETEST_TRIGGERED}
    /\ s.ticket # NoVal => s.state \in {EMAIL_VERIFICATION_TRIGGERED, EMAIL_GEETEST_TRIGGERED}
    /\ s.login_result # NoVal => s.state = SUCCESS
    /\ Cardinality({f \in {"mmt", "ticket", "login_result"} : s[f] # NoVal}) <= 1
C6_PayloadsAligned == \A id \in Ids : Found(id) => Aligned(Stored(id))

\* C7: concurrent create_session calls return pairwise distinct ids: between the
\* check that an id is unused and the insertion under it no other create inserts
\* the same id, so no create fails on a duplicate id.
C7_CreateIdsDistinct ==
    \A c \in Creators :
        /\ creators[c].pc = "insert" => creators[c].id \notin DOMAIN rows
        /\ creators[c].pc # "UniqueViolationError"

\* C8: on_expire is invoked at most once per session: a request in flight when
\* its session was evicted, persisting it afterwards, causes no second eviction
\* and no second on_expire.
C8_OnExpireOnce == \A ser \in DOMAIN cb.expire : cb.expire[ser] <= 1

\* C9: while on_expire is being invoked for a session, get_session does not
\* return that session: the removal is visible before the callback starts.
C9_RemovedBeforeOnExpire == sweep.pc = "callback" => ~Visible(sweep.cur)

\* C10: a failing on_expire does not stop the eviction sweep.
C10_SweepSurvivesOnExpire == ~(sweep.pc = "dead" /\ sweep.why = "on_expire")

\* C11: no interleaving of the sweep with a foreground delete_session stops the
\* sweep: when a delete removes a session the sweep has listed as expired while
\* the sweep awaits on_expire, the sweep goes on with the next session.
C11_SweepSurvivesDelete == ~(sweep.pc = "dead" /\ sweep.why = "KeyError")

\* the session of request h after the step (the stored object, or the handler's copy)
After(h) == IF cfg.backend = "memory" THEN objs'[hd[h].ref] ELSE hd'[h].loc
\* request h ends in this step
Ends(h) == hd[h].pc # "idle" /\ hd'[h].pc = "idle"
\* the answers the three-way branch of a login allows: the projection in the stage
\* of the gateway outcome (with the challenge payload when a challenge is pending)
ThreeWay(resp) ==
    /\ resp.status = 200 /\ resp.body = "session"
    /\ resp.view.state \in {SUCCESS, LOGIN_GEETEST_TRIGGERED, EMAIL_VERIFICATION_TRIGGERED}
    /\ resp.view.state = LOGIN_GEETEST_TRIGGERED => resp.view.mmt # NoVal
    /\ resp.view.state = EMAIL_VERIFICATION_TRIGGERED => resp.view.ticket # NoVal
\* an unexpected (non-domain) failure of the gateway call, re-raised
GatewayFailure(resp) == resp.status = 500 /\ resp.body = "Exception"
LoginFailedAnswer(resp) == resp.status = 200 /\ resp.body = "login_failed"

\* C12: in LOGIN_REQUIRED a credential payload is stored and a login call is made;
\* when the call returns, the answer is the projection in the stage of the gateway
\* outcome, or, on a rejection, 200 'login failed' with the stage LOGIN_REQUIRED.
C12_LoginByOutcome ==
    [][\A h \in Handlers :
          /\ (hd[h].pc = "handle" /\ hd'[h].pc # "handle" /\ hd[h].data.kind = "login"
                 /\ HSession(h).state = LOGIN_REQUIRED)
             => /\ hd'[h].pc = "login"
                /\ After(h).account = hd[h].data.account
                /\ After(h).password = hd[h].data.password
          /\ (hd[h].pc = "login" /\ Ends(h))
             => \/ ThreeWay(out'.resp) /\ out'.resp.view.state = objs'[out'.ser].state
                \/ LoginFailedAnswer(out'.resp) /\ objs'[out'.ser].state = LOGIN_REQUIRED
                \/ GatewayFailure(out'.resp)]_vars

\* C13: in LOGIN_GEETEST_TRIGGERED a challenge-result payload retries the login
\* with the stored credentials; the answer follows the same three-way branch, or,
\* on a rejection, is 200 'login failed' with the stage LOGIN_REQUIRED persisted.
C13_ChallengeRetry ==
    [][\A h \in Handlers :
          /\ (hd[h].pc = "handle" /\ hd'[h].pc # "handle" /\ hd[h].data.kind = "mmt_result"
                 /\ HSession(h).state = LOGIN_GEETEST_TRIGGERED)
             => /\ hd'[h].pc = "login_mmt"
                /\ After(h).account = HSession(h).account
                /\ After(h).password = HSession(h).password
          /\ (hd[h].pc = "login_mmt" /\ Ends(h))
             => \/ ThreeWay(out'.resp) /\ out'.resp.view.state = objs'[out'.ser].state
                \/ /\ LoginFailedAnswer(out'.resp)
                   /\ \E id \in Ids : /\ id = objs'[out'.ser].id
                                       /\ Found(id)'
                                       /\ Stored(id)'.state = LOGIN_REQUIRED
                \/ GatewayFailure(out'.resp)]_vars

VerifyFailedAnswer(resp) == resp.status = 200 /\ resp.body = "email_verification_failed"

\* C14: in EMAIL_VERIFICATION_TRIGGERED a verification code is sent to the
\* gateway; rejected: no login call, the stage stays, 200 'verification failed';
\* accepted: the login is re-attempted with the ticket and the answer follows the
\* three-way branch of that login.
C14_VerifyThenLogin ==
    [][\A h \in Handlers :
          /\ (hd[h].pc = "handle" /\ hd'[h].pc # "handle" /\ hd[h].data.kind = "code"
                 /\ HSession(h).state = EMAIL_VERIFICATION_TRIGGERED)
             => hd'[h].pc = "verify"
          /\ (hd[h].pc = "verify" /\ hd'[h].pc # "verify")
             => \/ hd'[h].pc = "login_ticket" /\ After(h).ticket # NoVal
                \/ /\ Ends(h) /\ VerifyFailedAnswer(out'.resp)
                   /\ objs'[out'.ser].state = EMAIL_VERIFICATION_TRIGGERED
                \/ Ends(h) /\ GatewayFailure(out'.resp)
          /\ (hd[h].pc = "login_ticket" /\ Ends(h))
             => \/ ThreeWay(out'.resp) /\ out'.resp.view.state = objs'[out'.ser].state
                \/ GatewayFailure(out'.resp)
                \/ out'.resp.status = 200 /\ objs'[out'.ser].state = LOGIN_REQUIRED]_vars

\* C15: a login attempt made for a payload and rejected by the gateway (the
\* session is back in LOGIN_REQUIRED) is never answered with the plain projection.
C15_RejectionIsAnError ==
    [][\A h \in Handlers :
          (/\ hd[h].pc \in {"login", "login_mmt", "login_ticket"} /\ Ends(h)
           /\ hd[h].data.kind # "none"
           /\ out'.resp.status = 200
           /\ objs'[out'.ser].state = LOGIN_REQUIRED)
          => out'.resp.body # "session"]_vars

Failures == {"Exception", "KeyError", "TypeError", "AttributeError"}

\* C17: a call of _handle_request that fails with an error other than a gateway
\* rejection dispatches on_error (when configured) for that session and re-raises
\* that error: it returns no normal response; and on_error is dispatched for
\* nothing else.
C17_FailureReported ==
    [][(Answered /\ out'.ser # 0) =>
          LET ser == out'.ser
              dispatched == cb'.error[ser] - cb.error[ser]
          IN /\ \A other \in DOMAIN cb.error \ {ser} : cb'.error[other] = cb.error[other]
             /\ IF out'.resp.status = 500
                THEN /\ dispatched = (IF cfg.on_error THEN 1 ELSE 0)
                     /\ out'.resp.body \in Failures
                     /\ out'.resp.view = NoPartial
                ELSE /\ dispatched = 0
                     /\ out'.resp.status \in {200, 422}
                     /\ out'.resp.body \notin Failures]_vars

\* C17 witness: the gateway call of a request failed unexpectedly; the request was
\* answered with that exception and on_error was dispatched for its session
C17_Witness ==
    /\ cfg.on_error
    /\ out.ser # 0 /\ out.resp.status = 500 /\ out.resp.body = "Exception"
    /\ cb.error[out.ser] = 1

\* a request without payload is accepted in this step: a request starts, it is
\* not one with a payload (those wait in "handle"), and the adapter does not
\* reject it (404, or the row does not validate)
PollStep ==
    /\ nRequests' # nRequests
    /\ \A h \in Handlers : hd'[h].pc = "handle" => hd[h].pc = "handle"
    /\ ~(hd' = hd /\ out'.ser = 0)
\* the session it is made on
PolledSer ==
    IF hd' = hd THEN out'.ser ELSE hd'[CHOOSE h \in Handlers : hd'[h] # hd[h]].ref
\* that session as get_session returns it to the adapter
Polled(ser) ==
    IF cfg.backend = "memory" THEN objs[ser]
    ELSE SessionFromRow(rows[CHOOSE id \in DOMAIN rows : rows[id].ser = ser])

\* C18: a request without payload on a session whose stage is not UNDEFINED is
\* answered 200 with the projection of the session as it was, makes no gateway
\* call, dispatches no callback and leaves every field of the session unchanged:
\* repeated, it gives the same answer.
C18_PollIdempotent ==
    [][(PollStep /\ Polled(PolledSer).state # UNDEFINED) =>
          /\ hd' = hd
          /\ out'.resp = JSONResponse(200, "session", get_partial(Polled(PolledSer)))
          /\ objs' = objs /\ rows' = rows /\ cb' = cb]_vars

\* C18 witness: a request without payload was answered on a session in
\* LOGIN_REQUIRED that holds submitted credentials (a rejected login before it)
C18_Witness ==
    /\ cfg.backend = "memory"
    /\ \A h \in Handlers : hd[h].pc = "idle"
    /\ out.ser # 0 /\ out.resp.status = 200 /\ out.resp.body = "session"
    /\ out.resp.view.state = LOGIN_REQUIRED
    /\ objs[out.ser].account # NoVal /\ objs[out.ser].ticket = NoVal

\* the session get_session(id) hands out
GetSession(id) ==
    IF cfg.backend = "memory" THEN objs[MemGetSession(storage, id)] ELSE SessionFromRow(rows[id])

\* C19: a session created with credentials keeps them: until its first request
\* (stage UNDEFINED) the session get_session returns holds the account and the
\* password given to create_session, so that the first request logs in with them.
C19_CredentialsKept ==
    \A id \in Ids :
        (Found(id) /\ GetSession(id).state = UNDEFINED
            /\ made[GetSession(id).ser].login # NoVal)
        => /\ GetSession(id).account = made[GetSession(id).ser].login
           /\ GetSession(id).password = made[GetSession(id).ser].password

\* C20: UNDEFINED is transient: when a call of _handle_request returns normally,
\* the stage in its answer and the stage of the handled session are not
\* UNDEFINED; and no session, row or handler's copy goes back to UNDEFINED.
C20_UndefinedTransient ==
    [][/\ (Answered /\ out'.ser # 0 /\ out'.resp.status \in {200, 422}) =>
             /\ out'.resp.body = "session" => out'.resp.view.state # UNDEFINED
             /\ cfg.backend = "memory" => objs'[out'.ser].state # UNDEFINED
             /\ \A id \in DOMAIN rows' : rows'[id].ser = out'.ser => rows'[id].state # UNDEFINED
       /\ \A ser \in DOMAIN objs : objs[ser].state # UNDEFINED => objs'[ser].state # UNDEFINED
       /\ \A id \in DOMAIN rows \cap DOMAIN rows' :
             (rows[id].ser = rows'[id].ser /\ rows[id].state # UNDEFINED)
                => rows'[id].state # UNDEFINED
       /\ \A h \in Handlers :
             (hd[h].pc \in Awaiting /\ hd'[h].pc \in Awaiting /\ hd[h].loc.state # UNDEFINED)
                => hd'[h].loc.state # UNDEFINED]_vars

\* C20 witness: the first request on a newly created session was answered normally
C20_Witness ==
    /\ cfg.backend = "memory"
    /\ nRequests = 1 /\ \A h \in Handlers : hd[h].pc = "idle"
    /\ out.ser # 0 /\ out.resp.status = 200 /\ out.resp.body = "session"
    /\ out.resp.view.state = LOGIN_REQUIRED

\* C21: SUCCESS is terminal: once the stage of a session is SUCCESS, no step of
\* any _handle_request call, later or still in flight, changes it.
C21_SuccessTerminal ==
    [][\A ser \in DOMAIN objs : objs[ser].state = SUCCESS => objs'[ser].state = SUCCESS]_vars

\* the session created as number ser is in the store and its expiry has passed
ExpiredInStore(ser) ==
    IF cfg.backend = "memory"
    THEN ser \in DOMAIN objs /\ Visible(ser) /\ MemExpired(objs[ser], now)
    ELSE \E id \in DOMAIN rows : rows[id].ser = ser /\ PgExpired(rows[id], now)

\* C22: after initialize, a session whose expiry has passed is eventually removed
\* from the store by the sweep.
C22_ExpiredEventuallyRemoved ==
    \A ser \in Serials :
        (sweep.pc # "off" /\ ExpiredInStore(ser)) ~> ~Visible(ser)

\* the session created as number ser is in the store with expiration_time None
NeverExpires(ser) ==
    IF cfg.backend = "memory"
    THEN ser \in DOMAIN objs /\ Visible(ser) /\ objs[ser].expiration_time = NoTime
    ELSE \E id \in DOMAIN rows : rows[id].ser = ser /\ rows[id].expiration_time = NoTime

\* C23: a session whose expiration_time is None is never evicted and on_expire is
\* never invoked for it; a step in which it leaves the store is not a step of
\* the sweep (no eviction is counted, the sweep does not move).
C23_NoExpiryNeverEvicted ==
    [][\A ser \in Serials :
          NeverExpires(ser) =>
             /\ cb'.evict[ser] = cb.evict[ser]
             /\ cb'.expire[ser] = cb.expire[ser]
             /\ ~Visible(ser)' => (sweep' = sweep /\ cb'.evict = cb.evict)]_vars

C23_Witness ==
    \E ser \in Serials :
        /\ NeverExpires(ser) /\ sweep.pc = "sleep" /\ cfg.on_expire
        /\ now = MaxTime /\ cb.evict[ser] = 0 /\ cb.expire[ser] = 0

\* the expiry the session of a create_session call at time t is to have
ExpectedExpiry(t) == IF cfg.ttl = NoTime THEN NoTime ELSE t + cfg.ttl

\* C24: create_session returns and persists a session with stage UNDEFINED, the
\* requested language and expiration_time = creation time + ttl for every
\* configured ttl (ttl = 0 included), None only when no ttl is configured.
C24_CreatedSession ==
    [][/\ (cfg.backend = "memory" /\ nCreates' = nCreates + 1) =>
             LET s == objs'[nCreates'] IN
             /\ \E id \in Ids : Found(id)' /\ Stored(id)'.ser = nCreates + 1
             /\ s.state = UNDEFINED
             /\ s.language = made'[nCreates'].language
             /\ s.expiration_time = ExpectedExpiry(now)
       /\ \A id \in DOMAIN rows' \ DOMAIN rows :
             /\ rows'[id].state = UNDEFINED
             /\ rows'[id].language = made[rows'[id].ser].language
             /\ rows'[id].expiration_time = ExpectedExpiry(now)
             /\ \E c \in Creators : creators[c].pc = "insert" /\ creators'[c].pc = "returned"]_vars

\* C25: delete_session is idempotent: after delete_session(id) the id is not in
\* the store and every other session is stored unchanged; for an id that is not
\* in the store nothing changes; a second delete_session(id) changes nothing.
C25_DeleteIdempotent ==
    [][\A id \in Ids :
          AppDeleteSession(id) =>
             /\ ~Found(id)'
             /\ \A k \in Ids \ {id} :
                   /\ Found(k)' <=> Found(k)
                   /\ Found(k) => Stored(k)' = Stored(k)
             /\ ~Found(id) => (storage' = storage /\ rows' = rows)
             /\ MemDeleteSession(storage', id) = storage'
             /\ Without(rows', {id}) = rows']_vars

\* C25 witness: of two sessions that never expire one was deleted, one is stored
C25_Witness ==
    /\ nCreates = 2 /\ nRequests = 0
    /\ Cardinality({id \in Ids : Found(id)}) = 1
    /\ \A ser \in 1..2 : cb.evict[ser] = 0 /\ (NeverExpires(ser) \/ ~Visible(ser))
    /\ \A c \in Creators : creators[c].pc # "insert"

\* get_session(id) after update_session(id, s) in the current store
ReadBack(id, s) ==
    LET w == ApplyOps([storage |-> storage, rows |-> rows, cb |-> cb, exc |-> NoVal],
                      <<"update">>, s)
    IN IF w.exc # NoVal THEN [exc |-> w.exc, session |-> NoSession]
       ELSE IF cfg.backend = "memory"
       THEN [exc |-> NoVal, session |-> IF DictGet(w.storage, id) = s.ser THEN s ELSE NoSession]
       ELSE IF RowValid(w.rows[id])
       THEN [exc |-> NoVal, session |-> SessionFromRow(w.rows[id])]
       ELSE [exc |-> "ValidationError", session |-> NoSession]

\* C26: store round trip: for an id in the store and a session value s of that id,
\* update_session(id, s) then get_session(id) returns s, equal in every field;
\* get_session after create_session returns the session with the language, the
\* user data and the credentials passed to create_session.
C26_RoundTrip ==
    \A id \in Ids :
        Found(id) =>
            /\ \A s \in Sessions :
                  s.id = id => ReadBack(id, s) = [exc |-> NoVal, session |-> s]
            /\ (GetSession(id).state = UNDEFINED /\ \A h \in Handlers : hd[h].pc = "idle") =>
                  LET s == GetSession(id) IN
                  /\ cfg.backend = "postgres" => RowValid(rows[id])
                  /\ s.language = made[s.ser].language
                  /\ s.data = made[s.ser].data
                  /\ s.account = made[s.ser].login
                  /\ s.password = made[s.ser].password

\* the fields a login call sets that session has set
SetByLogin(session) ==
    {f \in {"mmt", "ticket", "login_result"} : session[f] # NoVal}

\* C27: two concurrent _handle_request calls on one session that both complete
\* normally: when the second of the first two requests of a session ends, having
\* submitted credentials, the stored session is the one that call wrote: it holds
\* the credentials of that call and the one result of that call's login, and
\* nothing written by the other call.
C27_LastWriteWins ==
    [][\A h \in Handlers :
          (/\ nRequests = 2 /\ \A g \in Handlers \ {h} : hd[g].pc = "idle"
           /\ hd[h].pc = "login" /\ hd'[h].pc = "idle"
           /\ out.ser = hd[h].ref /\ out.resp.status = 200
           /\ out'.ser = hd[h].ref /\ out'.resp.status = 200)
          => \A id \in Ids :
                (Found(id)' /\ Stored(id)'.ser = out'.ser) =>
                   /\ Stored(id)'.account = hd[h].data.account
                   /\ Stored(id)'.password = hd[h].data.password
                   /\ Cardinality(SetByLogin(Stored(id)')) <= 1]_vars

\* callbacks of kind what dispatched for session ser in this step
Dispatched(what, ser) == cb'[what][ser] - cb[what][ser]

\* C28: on_success and on_error run as tasks of their own: the step of
\* _handle_request that dispatches a callback is the step that answers (200 for
\* on_success, the re-raised failure for on_error), with the task still pending;
\* a callback that ends, by returning or by raising, changes neither the answer
\* nor the session nor the store; on_success is dispatched before delete_session.
C28_CallbacksAreTasks ==
    [][/\ \A ser \in DOMAIN cb.pending :
             /\ Dispatched("success", ser) + Dispatched("error", ser) > 0 =>
                   /\ Answered /\ out'.ser = ser
                   /\ cb'.pending[ser] =
                         cb.pending[ser] + Dispatched("success", ser) + Dispatched("error", ser)
                   /\ Dispatched("error", ser) > 0 <=> (cfg.on_error /\ out'.resp.status = 500)
                   /\ Dispatched("success", ser) > 0 =>
                         (out'.resp.status = 500 \/ out'.resp.view.state = SUCCESS)
             /\ cb'.pending[ser] < cb.pending[ser] =>
                   /\ Dispatched("success", ser) = 0 /\ Dispatched("error", ser) = 0
                   /\ UNCHANGED <<out, hd, objs, storage, rows>>
       /\ \A s \in Sessions : SuccessOps(s) \in {<<>>, <<"on_success", "delete">>}]_vars

\* C28 witness: the answer of a successful login is out while on_success is
\* pending, and a request has failed and an on_error task has ended by raising
C28_Witness ==
    \E ser \in DOMAIN cb.pending :
        /\ cb.success[ser] = 1 /\ cb.pending[ser] = 1 /\ cb.error[ser] = 1
        /\ cb.unretrieved[ser] = 1
        /\ out.ser = ser /\ out.resp.status = 200 /\ out.resp.view.state = SUCCESS
        /\ \A h \in Handlers : hd[h].pc = "idle"

\* C29: for every session language, also one without an entry in the localization
\* table, a 422 or domain-error answer carries title and message; no request
\* ends in the failure of the lookup of a translation.
C29_LocalizedErrors ==
    \A ser \in DOMAIN cb.error :
        out.ser = ser =>
            ~(out.resp.status = 500 /\ out.resp.body = "KeyError" /\ out.resp.view = NoPartial)

\* the keys request_data_to_model looks for
Recognised == {"account", "mmt_result", "code"}

\* the payload a body of exactly one shape stands for: one recognised key, with
\* the fields its model requires (a key no model knows is no part of a shape)
OneShape(body) ==
    CASE body.kind = "absent" -> {NoData}
      [] body.kind = "object" /\ body.keys = {"account", "password"} ->
            {ReqLogin(body.account, body.password)}
      [] body.kind = "object" /\ body.keys \cap Recognised = {"mmt_result"} -> {ReqMMTResult}
      [] body.kind = "object" /\ body.keys \cap Recognised = {"code"} -> {ReqEmailVerification}
      [] OTHER -> {}

\* C30: at the transport, for a session that exists: an absent body is handed to
\* _handle_request as no payload, a body of exactly one of the three shapes as
\* that payload; a body of no shape (text that is no JSON, null, an object with
\* none of the recognised keys or with an incomplete shape) is answered 422
\* without _handle_request being called and without the session being modified.
C30_PayloadClassification ==
    [][\A h \in Handlers, id \in Ids :
          \A body \in Bodies(h) :
             (ApiLogin(h, id, body) /\ Found(id)) =>
                IF OneShape(body) # {}
                THEN \E data \in OneShape(body) : Request(h, id, data)
                ELSE Cardinality(body.keys \cap Recognised) <= 1 =>
                        /\ out'.resp.status = 422
                        /\ UNCHANGED <<hd, objs, storage, rows, cb>>]_vars

\* C31: login_result is set if and only if the stage is SUCCESS, for every stored
\* session and every copy a request holds, in every state of every interleaving
\* of requests on sessions created without a login_result.
C31_ResultIffSuccess ==
    \A s \in Sessions : (s.login_result # NoVal) <=> (s.state = SUCCESS)

ChallengePending == {LOGIN_GEETEST_TRIGGERED, EMAIL_GEETEST_TRIGGERED}
VerificationPending == {EMAIL_VERIFICATION_TRIGGERED}

\* C32: a projection returned to the client holds a challenge (mmt) only in a
\* challenge-pending stage and a ticket only in the verification-pending stage;
\* a projection in stage login_required or success holds neither.
C32_ProjectionByStage ==
    (out.ser # 0 /\ out.resp.body = "session") =>
        /\ out.resp.view.mmt # NoVal => out.resp.view.state \in ChallengePending
        /\ out.resp.view.ticket # NoVal => out.resp.view.state \in VerificationPending

\* C33: id, language and user data of a session are never changed: every stored
\* session, every copy a request holds and so every session handed to on_success,
\* on_error or on_expire has the language and the data given to create_session,
\* and is stored under its own id.
C33_IdentityKept ==
    /\ \A s \in Sessions :
          s.ser \in 1..Len(made) =>
             /\ s.language = made[s.ser].language
             /\ s.data = made[s.ser].data
    /\ \A id \in Ids : Found(id) => Stored(id).id = id

\* C34: _generate_id returns only an id that no session in the store has, and a
\* call that is in its loop eventually returns unless the id space is exhausted.
C34_GenerateId ==
    /\ [][\A c \in Creators :
             (creators[c].pc = "generate" /\ creators'[c].pc # "generate") =>
                /\ creators'[c].id \in Ids
                /\ \E id \in Ids : id = creators'[c].id /\ ~Found(id)]_vars
    /\ \A c \in Creators :
          (creators[c].pc = "generate") ~> (creators[c].pc # "generate" \/ Exhausted)

\* C34 witness: the last create of the budget drew the one id that was free
C34_Witness ==
    /\ nCreates = MaxCreates /\ Exhausted
    /\ \E c \in Creators : creators[c].ser = MaxCreates /\ creators[c].pc = "returned"

\* C35: update_session on an id that is not in the store adds no session: an id
\* becomes visible to get_session only in a step of create_session, so a deleted
\* or evicted session never becomes visible again.
C35_UpdateAddsNothing ==
    [][\A id \in Ids :
          (~Found(id) /\ Found(id)') =>
             /\ nCreates' = nCreates + 1 \/ \E c \in Creators : creators[c].pc = "insert" /\ creators'[c].pc # "insert"
             /\ hd' = hd /\ out' = out]_vars

\* C36: the sweep removes a session, and calls on_expire for it, only if the
\* expiration_time of that session has passed at that moment, under every
\* interleaving with create_session, delete_session and requests.
C36_OnlyExpiredRemoved ==
    [][\A ser \in DOMAIN cb.evict :
          (cb'.evict[ser] > cb.evict[ser] \/ cb'.expire[ser] > cb.expire[ser]) =>
             IF cfg.backend = "memory"
             THEN MemExpired(objs[ser], now)
             ELSE \E id \in DOMAIN rows : rows[id].ser = ser /\ PgExpired(rows[id], now)]_vars

\* C37: requests never change the expiration_time of a session: no step changes
\* the expiry of a session object, of a row or of the copy a request holds, and
\* a session the sweep has removed as expired is not in the store afterwards,
\* whatever requests were made on it.
C37_ExpiryKept ==
    [][/\ \A ser \in DOMAIN objs : objs'[ser].expiration_time = objs[ser].expiration_time
       /\ \A id \in DOMAIN rows \cap DOMAIN rows' :
             rows'[id].ser = rows[id].ser =>
                rows'[id].expiration_time = rows[id].expiration_time
       /\ \A h \in Handlers :
             (hd[h].pc \in Awaiting /\ hd'[h].pc \in Awaiting) =>
                hd'[h].loc.expiration_time = hd[h].loc.expiration_time
       /\ \A ser \in DOMAIN cb.evict : cb.evict[ser] > 0 => ~Visible(ser)']_vars

\* C38: when the gateway call of a request fails with an unexpected error, the
\* session get_session returns afterwards has the stage, mmt, ticket and
\* login_result it had before, and (for the first request on a session) the
\* credentials of the created session, not those the request submitted.
C38_FailureLeavesSession ==
    [][\A h \in Handlers, id \in Ids :
          (/\ hd[h].pc \in Awaiting /\ hd'[h].pc = "idle"
           /\ GatewayFailure(out'.resp)
           /\ Found(id) /\ Found(id)' /\ GetSession(id).ser = hd[h].ref
           /\ GetSession(id)'.ser = hd[h].ref)
          => /\ GetSession(id)'.state = GetSession(id).state
             /\ GetSession(id)'.mmt = GetSession(id).mmt
             /\ GetSession(id)'.ticket = GetSession(id).ticket
             /\ GetSession(id)'.login_result = GetSession(id).login_result
             /\ (nRequests = 1 /\ hd[h].data.kind = "login") =>
                   /\ GetSession(id)'.account = NoVal
                   /\ GetSession(id)'.password = made[hd[h].ref].password]_vars

====
